---- MODULE Spec2Model ----
(***************************************************************************)
(* Model of the example scripts of the documentation repository:           *)
(*   - the kernel-approximation notebook  (src/unnamed/part_000),          *)
(*   - the robust-vs-empirical covariance notebook,                        *)
(*   - the R script 2013-US-Population.r.                                  *)
(* One run executes one script top to bottom.  Every statement (or group   *)
(* of pure statements) is one action; a library call either returns or     *)
(* raises.  `calls` is the history of the external calls of the run and    *)
(* time() reads the logical clock Len(calls).  `inflight` holds the calls  *)
(* that have been entered and have not yet returned.                       *)
(***************************************************************************)
EXTENDS Integers, Sequences, FiniteSets, TLC

VARIABLES script, pc, status, calls, ns, installed, inflight

vars == <<script, pc, status, calls, ns, installed, inflight>>

\* ---------------------------------------------------------------- bounds
\* number of samples the digits dataset may hold in the model
MinSamples == 2
MaxSamples == 4

\* ------------------------------------------------------ program constants
DefaultNComponents == 100     \* RBFSampler() / Nystroem() default
SweepLen == 9                 \* np.arange(1, 10)
SweepStep == 30               \* 30 * np.arange(1, 10)
TitleNComponents == 100       \* 'n_components=100' in the subplot titles

Scripts == {"kernel", "cov", "r"}

\* --------------------------------------------------------------- helpers
\* Python 2 integer division of non-negative integers
PyDiv(a, b) == a \div b

\* rows 0..n-1 of an array
Rows(n) == [k \in 1..n |-> k - 1]

\* a[lo:hi] on a sequence, 0 <= lo <= hi; a bound past the end stops at the end
PySlice(a, lo, hi) == SubSeq(a, lo + 1, IF hi > Len(a) THEN Len(a) ELSE hi)

Range(s) == {s[k] : k \in 1..Len(s)}

\* time(): the logical clock is the number of external calls made so far
Time == Len(calls)

\* a statement of script s at label l may run: the interpreter executes one
\* statement at a time and a call blocks until the callee returns
Running(s, l) == script = s /\ status = "running" /\ pc = l /\ inflight = <<>>

\* the call at label l, entered before, comes back (returns or raises)
Returning(s, l) ==
    /\ script = s /\ status = "running" /\ pc = l
    /\ inflight = <<l>>
    /\ inflight' = <<>>

\* an external call is recorded, whether it returns or raises
LibCall(fn, obj, arg, n, ok) ==
    calls' = Append(calls, [fn |-> fn, obj |-> obj, arg |-> arg, n |-> n, ok |-> ok])

\* no try/except anywhere: a raising call ends the run where it stands
Swallow(ok, next, newns) ==
    /\ pc' = next
    /\ status' = "running"
    /\ ns' = IF ok THEN newns ELSE ns
Outcome(ok, next, newns) ==
    IF ok THEN /\ pc' = next
               /\ status' = "running"
               /\ ns' = newns
          ELSE /\ pc' = pc
               /\ status' = "raised"
               /\ ns' = ns

\* a pure statement (no external call)
Stmt(next, newns) ==
    /\ pc' = next
    /\ ns' = newns
    /\ UNCHANGED <<script, status, calls, installed, inflight>>

\* ======================================================================
\* Kernel-approximation notebook
\* ======================================================================
KernelNs0 ==
    [ digits |-> FALSE, n_samples |-> 0, data |-> <<>>,
      data_train |-> <<>>, targets_train |-> <<>>,
      data_test |-> <<>>, targets_test |-> <<>>,
      n_components |-> [fourier_approx_svm |-> 0, nystroem_approx_svm |-> 0],
      fitted |-> [kernel_svm |-> -1, linear_svm |-> -1,
                  fourier_approx_svm |-> -1, nystroem_approx_svm |-> -1,
                  pca |-> -1],
      kernel_svm_time |-> <<>>, kernel_svm_score |-> <<>>,
      linear_svm_time |-> <<>>, linear_svm_score |-> <<>>,
      sample_sizes |-> <<>>, d |-> 0, D |-> 0, start |-> 0,
      fourier_scores |-> <<>>, nystroem_scores |-> <<>>,
      fourier_times |-> <<>>, nystroem_times |-> <<>>,
      fourier_score |-> <<>>, nystroem_score |-> <<>>,
      fig |-> <<>>, X |-> <<>>, i |-> 0,
      contour_list |-> <<>>, scatter_list |-> <<>>, fig1 |-> <<>> ]

\* the value returned by clf.score / clf.predict: which classifier produced
\* it and the n_components it was fitted with
Result(clf) == [clf |-> clf, n |-> ns.fitted[clf]]

\* digits = datasets.load_digits(n_class=9); n_samples; data
load_digits ==
    /\ Returning("kernel", "load_digits")
    /\ \E ok \in BOOLEAN, n \in MinSamples..MaxSamples :
        /\ LibCall("load", "digits", "n_class", 9, ok)
        /\ Outcome(ok, "split",
                   [ns EXCEPT !.digits = TRUE, !.n_samples = n, !.data = Rows(n)])
    /\ UNCHANGED <<script, installed>>

\* data_train, targets_train = data[:n_samples / 2], digits.target[:n_samples / 2]
\* data_test, targets_test = data[n_samples / 2:], digits.target[n_samples / 2:]
split_gap ==
    /\ Running("kernel", "split")
    /\ LET h == PyDiv(ns.n_samples, 2)
           n == ns.n_samples
       IN Stmt("create",
               [ns EXCEPT !.data_train = PySlice(ns.data, 0, h),
                          !.targets_train = PySlice(Rows(n), 0, h),
                          !.data_test = PySlice(ns.data, h + 1, n),
                          !.targets_test = PySlice(Rows(n), h + 1, n)])
split ==
    /\ Running("kernel", "split")
    /\ LET h == PyDiv(ns.n_samples, 2)
           n == ns.n_samples
       IN Stmt("create",
               [ns EXCEPT !.data_train = PySlice(ns.data, 0, h),
                          !.targets_train = PySlice(Rows(n), 0, h),
                          !.data_test = PySlice(ns.data, h, n),
                          !.targets_test = PySlice(Rows(n), h, n)])

\* kernel_svm, linear_svm, the two feature maps and the two pipelines
create ==
    /\ Running("kernel", "create")
    /\ Stmt("kernel_svm_t0",
            [ns EXCEPT !.n_components =
                          [fourier_approx_svm |-> DefaultNComponents,
                           nystroem_approx_svm |-> DefaultNComponents]])

\* kernel_svm_time = time(): a reading of the clock is <<t>>, the difference
\* of two readings keeps both ends, <<t0, t1>>
kernel_svm_t0 ==
    /\ Running("kernel", "kernel_svm_t0")
    /\ Stmt("kernel_svm_fit", [ns EXCEPT !.kernel_svm_time = <<Time>>])

\* kernel_svm.fit(data_train, targets_train)
kernel_svm_fit ==
    /\ Returning("kernel", "kernel_svm_fit")
    /\ \E ok \in BOOLEAN :
        /\ LibCall("fit", "kernel_svm", "data_train", 0, ok)
        /\ Outcome(ok, "kernel_svm_score", [ns EXCEPT !.fitted.kernel_svm = 0])
    /\ UNCHANGED <<script, installed>>

\* kernel_svm_score = kernel_svm.score(data_test, targets_test)
kernel_svm_score ==
    /\ Returning("kernel", "kernel_svm_score")
    /\ \E ok \in BOOLEAN :
        /\ LibCall("score", "kernel_svm", "data_test", ns.fitted.kernel_svm, ok)
        /\ Outcome(ok, "kernel_svm_t1",
                   [ns EXCEPT !.kernel_svm_score = Result("kernel_svm")])
    /\ UNCHANGED <<script, installed>>

\* kernel_svm_time = time() - kernel_svm_time
kernel_svm_t1 ==
    /\ Running("kernel", "kernel_svm_t1")
    /\ Stmt("linear_svm_t0",
            [ns EXCEPT !.kernel_svm_time = <<ns.kernel_svm_time[1], Time>>])

\* linear_svm_time = time()
linear_svm_t0 ==
    /\ Running("kernel", "linear_svm_t0")
    /\ Stmt("linear_svm_fit", [ns EXCEPT !.linear_svm_time = <<Time>>])

\* linear_svm.fit(data_train, targets_train)
linear_svm_fit ==
    /\ Returning("kernel", "linear_svm_fit")
    /\ \E ok \in BOOLEAN :
        /\ LibCall("fit", "linear_svm", "data_train", 0, ok)
        /\ Outcome(ok, "linear_svm_score", [ns EXCEPT !.fitted.linear_svm = 0])
    /\ UNCHANGED <<script, installed>>

\* linear_svm_score = linear_svm.score(data_test, targets_test)
linear_svm_score ==
    /\ Returning("kernel", "linear_svm_score")
    /\ \E ok \in BOOLEAN :
        /\ LibCall("score", "linear_svm", "data_test", ns.fitted.linear_svm, ok)
        /\ Outcome(ok, "linear_svm_t1",
                   [ns EXCEPT !.linear_svm_score = Result("linear_svm")])
    /\ UNCHANGED <<script, installed>>

\* linear_svm_time = time() - linear_svm_time
linear_svm_t1 ==
    /\ Running("kernel", "linear_svm_t1")
    /\ Stmt("sweep_init",
            [ns EXCEPT !.linear_svm_time = <<ns.linear_svm_time[1], Time>>])

\* sample_sizes = 30 * np.arange(1, 10); the four result lists
sweep_init ==
    /\ Running("kernel", "sweep_init")
    /\ Stmt("sweep_next",
            [ns EXCEPT !.sample_sizes = [k \in 1..SweepLen |-> SweepStep * k],
                       !.fourier_scores = <<>>, !.nystroem_scores = <<>>,
                       !.fourier_times = <<>>, !.nystroem_times = <<>>,
                       !.d = 0])

\* for D in sample_sizes: next element, or leave the loop
sweep_next_short ==
    /\ Running("kernel", "sweep_next")
    /\ IF ns.d < Len(ns.sample_sizes) - 1
       THEN Stmt("set_params",
                 [ns EXCEPT !.d = ns.d + 1, !.D = ns.sample_sizes[ns.d + 1]])
       ELSE Stmt("make_fig", ns)
sweep_next ==
    /\ Running("kernel", "sweep_next")
    /\ IF ns.d < Len(ns.sample_sizes)
       THEN Stmt("set_params",
                 [ns EXCEPT !.d = ns.d + 1, !.D = ns.sample_sizes[ns.d + 1]])
       ELSE Stmt("make_fig", ns)

\* fourier_approx_svm.set_params(feature_map__n_components=D), and nystroem
set_params ==
    /\ Running("kernel", "set_params")
    /\ Stmt("nystroem_t0",
            [ns EXCEPT !.n_components =
                          [fourier_approx_svm |-> ns.D,
                           nystroem_approx_svm |-> ns.D]])

\* start = time()
nystroem_t0 ==
    /\ Running("kernel", "nystroem_t0")
    /\ Stmt("nystroem_fit", [ns EXCEPT !.start = Time])

\* nystroem_approx_svm.fit(data_train, targets_train)
nystroem_fit ==
    /\ Returning("kernel", "nystroem_fit")
    /\ \E ok \in BOOLEAN :
        /\ LibCall("fit", "nystroem_approx_svm", "data_train",
                   ns.n_components.nystroem_approx_svm, ok)
        /\ Outcome(ok, "nystroem_t1",
                   [ns EXCEPT !.fitted.nystroem_approx_svm =
                                  ns.n_components.nystroem_approx_svm])
    /\ UNCHANGED <<script, installed>>

\* nystroem_times.append(time() - start)
nystroem_t1 ==
    /\ Running("kernel", "nystroem_t1")
    /\ Stmt("fourier_t0",
            [ns EXCEPT !.nystroem_times = Append(ns.nystroem_times, <<ns.start, Time>>)])

\* start = time()
fourier_t0 ==
    /\ Running("kernel", "fourier_t0")
    /\ Stmt("fourier_fit", [ns EXCEPT !.start = Time])

\* fourier_approx_svm.fit(data_train, targets_train)
fourier_fit ==
    /\ Returning("kernel", "fourier_fit")
    /\ \E ok \in BOOLEAN :
        /\ LibCall("fit", "fourier_approx_svm", "data_train",
                   ns.n_components.fourier_approx_svm, ok)
        /\ Outcome(ok, "fourier_t1",
                   [ns EXCEPT !.fitted.fourier_approx_svm =
                                  ns.n_components.fourier_approx_svm])
    /\ UNCHANGED <<script, installed>>

\* fourier_times.append(time() - start)
fourier_t1 ==
    /\ Running("kernel", "fourier_t1")
    /\ Stmt("fourier_score",
            [ns EXCEPT !.fourier_times = Append(ns.fourier_times, <<ns.start, Time>>)])

\* fourier_score = fourier_approx_svm.score(data_test, targets_test)
fourier_score ==
    /\ Returning("kernel", "fourier_score")
    /\ \E ok \in BOOLEAN :
        /\ LibCall("score", "fourier_approx_svm", "data_test",
                   ns.fitted.fourier_approx_svm, ok)
        /\ Outcome(ok, "nystroem_score",
                   [ns EXCEPT !.fourier_score = Result("fourier_approx_svm")])
    /\ UNCHANGED <<script, installed>>

\* nystroem_score = nystroem_approx_svm.score(data_test, targets_test)
nystroem_score ==
    /\ Returning("kernel", "nystroem_score")
    /\ \E ok \in BOOLEAN :
        /\ LibCall("score", "nystroem_approx_svm", "data_test",
                   ns.fitted.nystroem_approx_svm, ok)
        /\ Outcome(ok, "append_scores",
                   [ns EXCEPT !.nystroem_score = Result("nystroem_approx_svm")])
    /\ UNCHANGED <<script, installed>>

\* nystroem_scores.append(nystroem_score); fourier_scores.append(fourier_score)
append_scores ==
    /\ Running("kernel", "append_scores")
    /\ Stmt("sweep_next",
            [ns EXCEPT !.nystroem_scores = Append(ns.nystroem_scores, ns.nystroem_score),
                       !.fourier_scores = Append(ns.fourier_scores, ns.fourier_score)])

\* ---------------------------------------------------------------------
\* cell "Plotting Classification accuracy and Training Times"
\* ---------------------------------------------------------------------
\* a trace of the figure: its legend name, its x values and the values it
\* plots; a literal coordinate (y=[0.7, 1]) is held in tenths
Trace(name, x, y) == [name |-> name, x |-> x, y |-> y]
Literal(v) == [clf |-> "literal", n |-> v]

\* make_subplots(rows=2, cols=1, subplot_titles=...), the nine go.Scatter
\* traces, the two append_trace loops and the layout updates
make_fig ==
    /\ Running("kernel", "make_fig")
    /\ LET ends == <<ns.sample_sizes[1], ns.sample_sizes[Len(ns.sample_sizes)]>>
           accuracy ==
             << Trace("Nystroem approx. kernel", ns.sample_sizes, ns.nystroem_scores),
                Trace("Fourier approx. kernel", ns.sample_sizes, ns.fourier_scores),
                Trace("linear svm", ends, <<ns.linear_svm_score, ns.linear_svm_score>>),
                Trace("rbf svm", ends, <<ns.kernel_svm_score, ns.kernel_svm_score>>),
                Trace("n_features", <<64, 64>>, <<Literal(7), Literal(10)>>) >>
           timescale ==
             << Trace("Nystroem approx. kernel", ns.sample_sizes, ns.nystroem_times),
                Trace("Fourier approx. kernel", ns.sample_sizes, ns.fourier_times),
                Trace("linear svm", ends, <<ns.linear_svm_time, ns.linear_svm_time>>),
                Trace("rbf svm", ends, <<ns.kernel_svm_time, ns.kernel_svm_time>>) >>
       IN Stmt("iplot_fig",
               [ns EXCEPT !.fig = [titles |-> <<"Classification accuracy", "Training times">>,
                                   rows |-> <<accuracy, timescale>>]])

\* py.iplot(fig, filename="accuracy-training")
iplot_fig ==
    /\ Returning("kernel", "iplot_fig")
    /\ \E ok \in BOOLEAN :
        /\ LibCall("iplot", "fig", "accuracy-training", 0, ok)
        /\ Outcome(ok, "make_fig1", ns)
    /\ UNCHANGED <<script, installed>>

\* ---------------------------------------------------------------------
\* cell "Plotting SVC Kernel"
\* ---------------------------------------------------------------------
PcaNComponents == 8

\* a subplot title: the classifier it describes and the n_components it states
\* (0: the title states none)
Title(text, n) == [text |-> text, n_components |-> n]

Fig1Titles ==
    << Title("SVC with rbf kernel", 0),
       Title("SVC (linear kernel) with Fourier rbf feature map", TitleNComponents),
       Title("SVC (linear kernel) with Nystroem rbf feature map", TitleNComponents) >>

\* the tuple the predict loop enumerates
PredictOrder == <<"kernel_svm", "nystroem_approx_svm", "fourier_approx_svm">>

\* fig1 = tools.make_subplots(rows=1, cols=3, subplot_titles=(...))
make_fig1 ==
    /\ Running("kernel", "make_fig1")
    /\ Stmt("pca_fit",
            [ns EXCEPT !.fig1 = [titles |-> Fig1Titles,
                                 cols |-> [k \in 1..3 |-> <<>>]]])

\* pca = PCA(n_components=8).fit(data_train)
pca_fit ==
    /\ Returning("kernel", "pca_fit")
    /\ \E ok \in BOOLEAN :
        /\ LibCall("fit", "pca", "data_train", PcaNComponents, ok)
        /\ Outcome(ok, "pca_transform", [ns EXCEPT !.fitted.pca = PcaNComponents])
    /\ UNCHANGED <<script, installed>>

\* X = pca.transform(data_train); multiples, first, second, grid, flat_grid;
\* titles = []; contour_list = []; scatter_list = []
pca_transform ==
    /\ Returning("kernel", "pca_transform")
    /\ \E ok \in BOOLEAN :
        /\ LibCall("transform", "pca", "data_train", ns.fitted.pca, ok)
        /\ Outcome(ok, "predict_next",
                   [ns EXCEPT !.X = ns.data_train, !.contour_list = <<>>,
                              !.scatter_list = <<>>, !.i = 0])
    /\ UNCHANGED <<script, installed>>

\* for i, clf in enumerate((kernel_svm, nystroem_approx_svm, fourier_approx_svm))
predict_next ==
    /\ Running("kernel", "predict_next")
    /\ IF ns.i < Len(PredictOrder)
       THEN Stmt("predict", ns)
       ELSE Stmt("append_traces", ns)

\* Z = clf.predict(flat_grid); trace1 = go.Contour(z=Z); contour_list.append;
\* trace2 = go.Scatter(X...); scatter_list.append
predict ==
    /\ Returning("kernel", "predict")
    /\ LET clf == PredictOrder[ns.i + 1] IN
       \E ok \in BOOLEAN :
        /\ LibCall("predict", clf, "flat_grid", ns.fitted[clf], ok)
        /\ Outcome(ok, "predict_next",
                   [ns EXCEPT !.contour_list = Append(ns.contour_list, Result(clf)),
                              !.scatter_list = Append(ns.scatter_list, "X"),
                              !.i = ns.i + 1])
    /\ UNCHANGED <<script, installed>>

\* for i in range(0,3): fig1.append_trace(contour_list[i], 1, i+1);
\*                      fig1.append_trace(scatter_list[i], 1, i+1)
\* and the axis updates
append_traces ==
    /\ Running("kernel", "append_traces")
    /\ Stmt("iplot_fig1",
            [ns EXCEPT !.fig1.cols =
                [k \in 1..3 |-> [contour |-> ns.contour_list[k],
                                 scatter |-> ns.scatter_list[k]]]])

\* py.iplot(fig1, filename="svm")
iplot_fig1 ==
    /\ Returning("kernel", "iplot_fig1")
    /\ \E ok \in BOOLEAN :
        /\ LibCall("iplot", "fig1", "svm", 0, ok)
        /\ Outcome(ok, "pip_install", ns)
    /\ UNCHANGED <<script, installed>>

\* ======================================================================
\* The final cell of a notebook
\* ======================================================================
\* ! pip install git+https://github.com/plotly/publisher.git --upgrade
\* A shell escape: the command's exit status is not an exception, the cell
\* goes on with the next statement whether the install worked or not.
PipInstallStops(s) ==
    /\ Returning(s, "pip_install")
    /\ \E ok \in BOOLEAN :
        /\ LibCall("pip", "publisher", "install", 0, ok)
        /\ installed' = (ok \/ installed)
        /\ Outcome(ok, "import_publisher", ns)
    /\ UNCHANGED script
PipInstall(s) ==
    /\ Returning(s, "pip_install")
    /\ \E ok \in BOOLEAN :
        /\ LibCall("pip", "publisher", "install", 0, ok)
        /\ installed' = (ok \/ installed)
        /\ pc' = "import_publisher"
    /\ UNCHANGED <<script, status, ns>>

\* import publisher: ImportError unless the package is installed
ImportPublisher(s) ==
    /\ Returning(s, "import_publisher")
    /\ LibCall("import", "publisher", "module", 0, installed)
    /\ Outcome(installed, "publish", ns)
    /\ UNCHANGED <<script, installed>>

\* publisher.publish(...)
Publish(s, notebook) ==
    /\ Returning(s, "publish")
    /\ \E ok \in BOOLEAN :
        /\ LibCall("publish", "publisher", notebook, 0, ok)
        /\ Outcome(ok, "end", ns)
    /\ UNCHANGED <<script, installed>>

\* the trailing empty cell: nothing left to run
EndOfNotebookRepublish(s) ==
    /\ Running(s, "end")
    /\ status' = "done"
    /\ LibCall("publish", "publisher", "again", 0, TRUE)
    /\ UNCHANGED <<script, pc, ns, installed, inflight>>
EndOfNotebook(s) ==
    /\ Running(s, "end")
    /\ status' = "done"
    /\ UNCHANGED <<script, pc, calls, ns, installed, inflight>>

kernel_pip_install == PipInstall("kernel")
kernel_import_publisher == ImportPublisher("kernel")
kernel_publish == Publish("kernel", "feature-map-approx.ipynb")
kernel_end == EndOfNotebook("kernel")

\* ======================================================================
\* Robust-vs-empirical covariance notebook
\* ======================================================================
\* example settings
n_samples == 80
n_features == 5
repeat == 10

\* non-integer values (2.5, 7.5, ...) are held in quarters: v stands for v / Scale
Scale == 4

\* np.linspace(start, stop, num) for integers start <= stop, in quarters
Linspace(start, stop, num) ==
    [k \in 1..num |-> (start * Scale * (num - 1) + (k - 1) * (stop - start) * Scale)
                         \div (num - 1)]

\* a float used as a slice bound or a size is truncated to an integer
\* (the VisibleDeprecationWarning of the captured output)
Trunc(v) == v \div Scale

\* np.concatenate((np.linspace(0, n_samples / 8, 5),
\*                 np.linspace(n_samples / 8, n_samples / 2, 5)[1:-1]))
RangeNOutliers_unsliced ==
    Linspace(0, PyDiv(n_samples, 8), 5)
        \o PySlice(Linspace(PyDiv(n_samples, 8), PyDiv(n_samples, 2), 5), 1, 5)
RangeNOutliers ==
    Linspace(0, PyDiv(n_samples, 8), 5)
        \o PySlice(Linspace(PyDiv(n_samples, 8), PyDiv(n_samples, 2), 5), 1, 4)

\* rng.permutation(n): a permutation of 0..n-1 fixed by the seed of rng
\* (the generator's stream is a function of its seed; the rotation stands
\* for numpy's shuffle)
Permutation(seed, n) == [k \in 1..n |-> (k - 1 + seed) % n]

\* The global generator np.random is never seeded by the notebook: its state
\* when the Calculations cell starts is whatever the interpreter session left.
\* RandInt is the value a draw returns in a state, NextState the state after it.
GlobalPeriod == 3
RandInt(state) == (state % 2) + 1
NextState(state) == (state + 1) % GlobalPeriod

\* np.zeros((range_n_outliers.size, repeat))
Zero == [est |-> "zero", rows |-> 0, outliers |-> 0, seed |-> 0, draw |-> 0]
Zeros(rows, cols) == [c \in (0..rows - 1) \X (0..cols - 1) |-> Zero]

\* what an error value was computed from: the estimator and the data set
Measured(est, rowset) ==
    [est |-> est, rows |-> Cardinality(rowset),
     outliers |-> Cardinality({r \in rowset : ns.X.offset[r] # 0}),
     seed |-> ns.X.seed, draw |-> ns.X.draw]

CovNs0(g) ==
    [ np_random |-> g,
      range_n_outliers |-> <<>>,
      err_loc_mcd |-> <<>>, err_cov_mcd |-> <<>>,
      err_loc_emp_full |-> <<>>, err_cov_emp_full |-> <<>>,
      err_loc_emp_pure |-> <<>>, err_cov_emp_pure |-> <<>>,
      i |-> -1, n_outliers |-> 0, j |-> -1, rng |-> -1,
      X |-> <<>>, outliers_index |-> <<>>, outliers_offset |-> 0,
      inliers_mask |-> <<>>, pure_X |-> {},
      fig |-> <<>> ]

\* n_samples, n_features, repeat, range_n_outliers and the six result arrays
settings ==
    /\ Running("cov", "settings")
    /\ LET z == Zeros(Len(RangeNOutliers), repeat) IN
       Stmt("outer_next",
            [ns EXCEPT !.range_n_outliers = RangeNOutliers,
                       !.err_loc_mcd = z, !.err_cov_mcd = z,
                       !.err_loc_emp_full = z, !.err_cov_emp_full = z,
                       !.err_loc_emp_pure = z, !.err_cov_emp_pure = z,
                       !.i = -1])

\* for i, n_outliers in enumerate(range_n_outliers)
outer_next ==
    /\ Running("cov", "outer_next")
    /\ IF ns.i + 1 < Len(ns.range_n_outliers)
       THEN Stmt("inner_next",
                 [ns EXCEPT !.i = ns.i + 1,
                            !.n_outliers = ns.range_n_outliers[ns.i + 2],
                            !.j = -1])
       ELSE Stmt("make_location_fig", ns)

\* for j in range(repeat)
inner_next_short ==
    /\ Running("cov", "inner_next")
    /\ IF ns.j + 1 < repeat - 1
       THEN Stmt("seed", [ns EXCEPT !.j = ns.j + 1])
       ELSE Stmt("outer_next", ns)
inner_next ==
    /\ Running("cov", "inner_next")
    /\ IF ns.j + 1 < repeat
       THEN Stmt("seed", [ns EXCEPT !.j = ns.j + 1])
       ELSE Stmt("outer_next", ns)

\* rng = np.random.RandomState(i * j)
seed_zero ==
    /\ Running("cov", "seed")
    /\ Stmt("generate", [ns EXCEPT !.rng = 0])
seed ==
    /\ Running("cov", "seed")
    /\ Stmt("generate", [ns EXCEPT !.rng = ns.i * ns.j])

\* X = rng.randn(n_samples, n_features)
generate ==
    /\ Running("cov", "generate")
    /\ Stmt("outliers_index",
            [ns EXCEPT !.X = [seed |-> ns.rng, draw |-> 0,
                              offset |-> [r \in 0..n_samples - 1 |-> 0]]])

\* outliers_index = rng.permutation(n_samples)[:n_outliers]
outliers_index ==
    /\ Running("cov", "outliers_index")
    /\ Stmt("outliers_offset",
            [ns EXCEPT !.outliers_index =
                PySlice(Permutation(ns.rng, n_samples), 0, Trunc(ns.n_outliers))])

\* outliers_offset = 10. * (np.random.randint(2, size=(n_outliers, n_features)) - 0.5)
\* drawn from the global generator; an array of Trunc(n_outliers) rows
outliers_offset ==
    /\ Running("cov", "outliers_offset")
    /\ IF Trunc(ns.n_outliers) > 0
       THEN Stmt("add_outliers",
                 [ns EXCEPT !.outliers_offset = RandInt(ns.np_random),
                            !.np_random = NextState(ns.np_random)])
       ELSE Stmt("add_outliers", [ns EXCEPT !.outliers_offset = 0])

\* X[outliers_index] += outliers_offset
add_outliers ==
    /\ Running("cov", "add_outliers")
    /\ Stmt("inliers_mask",
            [ns EXCEPT !.X.draw = ns.outliers_offset,
                       !.X.offset = [r \in 0..n_samples - 1 |->
                                        IF r \in Range(ns.outliers_index)
                                        THEN ns.outliers_offset ELSE 0]])

\* inliers_mask = np.ones(n_samples).astype(bool); inliers_mask[outliers_index] = False
inliers_mask_first ==
    /\ Running("cov", "inliers_mask")
    /\ Stmt("mcd_fit",
            [ns EXCEPT !.inliers_mask =
                [r \in 0..n_samples - 1 |->
                    r \notin Range(PySlice(ns.outliers_index, 0, 1))]])
inliers_mask ==
    /\ Running("cov", "inliers_mask")
    /\ Stmt("mcd_fit",
            [ns EXCEPT !.inliers_mask =
                [r \in 0..n_samples - 1 |-> r \notin Range(ns.outliers_index)]])

\* mcd = MinCovDet().fit(X); err_loc_mcd[i, j] = ...; err_cov_mcd[i, j] = ...
mcd_fit ==
    /\ Returning("cov", "mcd_fit")
    /\ \E ok \in BOOLEAN :
        /\ LibCall("fit", "MinCovDet", "X", ns.X.seed, ok)
        /\ LET m == Measured("mcd", 0..n_samples - 1) IN
           Outcome(ok, "emp_full_fit",
                   [ns EXCEPT !.err_loc_mcd[<<ns.i, ns.j>>] = m,
                              !.err_cov_mcd[<<ns.i, ns.j>>] = m])
    /\ UNCHANGED <<script, installed>>

\* err_loc_emp_full[i, j] = np.sum(X.mean(0) ** 2)
\* err_cov_emp_full[i, j] = EmpiricalCovariance().fit(X).error_norm(np.eye(n_features))
emp_full_fit ==
    /\ Returning("cov", "emp_full_fit")
    /\ \E ok \in BOOLEAN :
        /\ LibCall("fit", "EmpiricalCovariance", "X", ns.X.seed, ok)
        /\ LET m == Measured("emp_full", 0..n_samples - 1) IN
           Outcome(ok, "pure_X",
                   [ns EXCEPT !.err_loc_emp_full[<<ns.i, ns.j>>] = m,
                              !.err_cov_emp_full[<<ns.i, ns.j>>] = m])
    /\ UNCHANGED <<script, installed>>

\* pure_X = X[inliers_mask]; pure_location = pure_X.mean(0)
pure_X ==
    /\ Running("cov", "pure_X")
    /\ Stmt("pure_fit",
            [ns EXCEPT !.pure_X = {r \in 0..n_samples - 1 : ns.inliers_mask[r]}])

\* pure_emp_cov = EmpiricalCovariance().fit(pure_X)
\* err_loc_emp_pure[i, j] = ...; err_cov_emp_pure[i, j] = ...
pure_fit ==
    /\ Returning("cov", "pure_fit")
    /\ \E ok \in BOOLEAN :
        /\ LibCall("fit", "EmpiricalCovariance", "pure_X", ns.X.seed, ok)
        /\ LET m == Measured("emp_pure", ns.pure_X) IN
           Outcome(ok, "inner_next",
                   [ns EXCEPT !.err_loc_emp_pure[<<ns.i, ns.j>>] = m,
                              !.err_cov_emp_pure[<<ns.i, ns.j>>] = m])
    /\ UNCHANGED <<script, installed>>

\* ---------------------------------------------------------------------
\* cells "Plot Results"
\* ---------------------------------------------------------------------
\* go.Scatter(x=..., y=err.mean(1), name=...): y names the array it averages
CovTrace(name, x, y) == [name |-> name, x |-> x, y |-> y]

\* the three location traces, the layout and fig
make_location_fig ==
    /\ Running("cov", "make_location_fig")
    /\ LET x == ns.range_n_outliers IN
       Stmt("iplot_location",
            [ns EXCEPT !.fig =
                [title |-> "Influence of outliers on the location estimation",
                 xaxis |-> "Amount of contamination (%)",
                 data |-> << CovTrace("Robust location", x, "err_loc_mcd"),
                             CovTrace("Pure data set mean", x, "err_loc_emp_pure"),
                             CovTrace("Full data set mean", x, "err_loc_emp_full") >>]])

\* py.iplot(fig)
iplot_location ==
    /\ Returning("cov", "iplot_location")
    /\ \E ok \in BOOLEAN :
        /\ LibCall("iplot", "fig", "location", 0, ok)
        /\ Outcome(ok, "make_covariance_fig", ns)
    /\ UNCHANGED <<script, installed>>

\* x_size = range_n_outliers.size; the four covariance traces, layout, fig
make_covariance_fig ==
    /\ Running("cov", "make_covariance_fig")
    /\ LET x == ns.range_n_outliers
           x_size == Len(ns.range_n_outliers)
       IN
       Stmt("iplot_covariance",
            [ns EXCEPT !.fig =
                [title |-> "Influence of outliers on the covariance estimation",
                 xaxis |-> "Amount of contamination (%)",
                 data |-> << CovTrace("Robust covariance (mcd)", x, "err_cov_mcd"),
                             CovTrace("Full data set empirical covariance",
                                      PySlice(x, 0, PyDiv(x_size, 5) + 1),
                                      "err_cov_emp_full"),
                             CovTrace("Full data set empirical covariance",
                                      PySlice(x, PyDiv(x_size, 5), PyDiv(x_size, 2) - 1),
                                      "err_cov_emp_full"),
                             CovTrace("Pure data set empirical covariance", x,
                                      "err_cov_emp_pure") >>]])

\* py.iplot(fig)
iplot_covariance ==
    /\ Returning("cov", "iplot_covariance")
    /\ \E ok \in BOOLEAN :
        /\ LibCall("iplot", "fig", "covariance", 0, ok)
        /\ Outcome(ok, "pip_install", ns)
    /\ UNCHANGED <<script, installed>>

cov_pip_install == PipInstall("cov")
cov_import_publisher == ImportPublisher("cov")
cov_publish == Publish("cov", "Robust-vs-Empirical-covariance-estimate.ipynb")
cov_end == EndOfNotebook("cov")

\* ======================================================================
\* R script 2013-US-Population.r
\* ======================================================================
\* The text of the seven top-level expressions, one character class per
\* lexical unit: "w" a word (name, number, keyword), "q" a double or single
\* quote, "<" the assignment arrow, and "(", ")", ",", "=", "$" themselves.
\* Long argument lists are cut to their first and last arguments.
Line138 == <<"w", "=", "q", "q", "w", "w", "q", ",", "w", ",", "w", ",", "w", "q", ",">>

RExprs ==
    << \* library(plotly)
       <<"w", "(", "w", ")">>,
       \* p <- plotly(username='theengineear', key='o9zlr0hy6z')
       <<"w", "<", "w", "(", "w", "=", "q", "w", "q", ",", "w", "=", "q", "w", "q", ")">>,
       \* data <- list(list(x = c("AL", ...), y = c("4833722", ...), name = "Col2", type = "bar"))
       <<"w", "<", "w", "(", "w", "(",
             "w", "=", "w", "(", "q", "w", "q", ",", "q", "w", "q", ")", ",",
             "w", "=", "w", "(", "q", "w", "q", ",", "q", "w", "q", ")", ",",
             "w", "=", "q", "w", "q", ",", "w", "=", "q", "w", "q", ")", ")">>,
       \* layout <- list(title = "...", ..., font = list(family = ..., size = 12,
       \*                color = "#444"), ..., showlegend = TRUE)
       <<"w", "<", "w", "(", "w", "=", "q", "w", "q", ",", "w", "=", "w", "(">>
           \o Line138
           \o <<"w", "=", "w", ",", "w", "=", "q", "w", "q", ")", ",", "w", "=", "w", ")">>,
       \* response <- p$plotly(data, kwargs=list(layout=layout, filename="2013-US-Population",
       \*                      fileopt="overwrite", auto_open="FALSE"))
       <<"w", "<", "w", "$", "w", "(", "w", ",", "w", "=", "w", "(", "w", "=", "w", ",",
             "w", "=", "q", "w", "q", ",", "w", "=", "q", "w", "q", ",",
             "w", "=", "q", "w", "q", ")", ")">>,
       \* url <- response$url
       <<"w", "<", "w", "$", "w">>,
       \* filename <- response$filename
       <<"w", "<", "w", "$", "w">> >>

\* position of the quote closing a string opened just before position k
\* (Len + 1: the string never ends)
RECURSIVE StringEnd(_, _)
StringEnd(chars, k) ==
    IF k > Len(chars) THEN Len(chars) + 1
    ELSE IF chars[k] = "q" THEN k
    ELSE StringEnd(chars, k + 1)

\* the tokens of an expression from position k on: a quoted string is one
\* token "STR" whatever it holds, a word is "SYM"
RECURSIVE Lex(_, _)
Lex(chars, k) ==
    IF k > Len(chars) THEN <<>>
    ELSE IF chars[k] = "q"
         THEN LET e == StringEnd(chars, k + 1) IN
              IF e > Len(chars) THEN <<"BAD">>
              ELSE <<"STR">> \o Lex(chars, e + 1)
    ELSE IF chars[k] = "w" THEN <<"SYM">> \o Lex(chars, k + 1)
    ELSE <<chars[k]>> \o Lex(chars, k + 1)

\* the parser rejects an operand that directly follows an operand
\* ("unexpected symbol", "unexpected string constant") and a string that
\* never ends
Operand(t) == t \in {"STR", "SYM"}
SyntaxOK(chars) ==
    LET toks == Lex(chars, 1) IN
    /\ \A k \in 1..Len(toks) : toks[k] # "BAD"
    /\ \A k \in 1..Len(toks) - 1 : ~(Operand(toks[k]) /\ Operand(toks[k + 1]))

\* whether each top-level expression of the script parses
RSyntax == [k \in 1..Len(RExprs) |-> SyntaxOK(RExprs[k])]

\* the script is run either by Rscript, which parses and evaluates one
\* top-level expression after the other, or by source(), which parses the
\* whole file before it evaluates anything
RModes == {"Rscript", "source"}

RNs0(mode) ==
    [ mode |-> mode, k |-> 0, library |-> FALSE, p |-> FALSE,
      data |-> <<>>, layout |-> FALSE, response |-> FALSE,
      url |-> FALSE, filename |-> FALSE ]

\* source(): parse the whole file first
r_parse ==
    /\ Running("r", "r_parse")
    /\ pc' = "r_eval"
    /\ status' = IF \A k \in 1..Len(RExprs) : RSyntax[k]
                 THEN "running" ELSE "halted"
    /\ UNCHANGED <<script, calls, ns, installed, inflight>>

\* what evaluating the k-th top-level expression does to the workspace
REffect(k) ==
    CASE k = 1 -> [ns EXCEPT !.k = k, !.library = TRUE]
      [] k = 2 -> [ns EXCEPT !.k = k, !.p = TRUE]
      [] k = 3 -> [ns EXCEPT !.k = k, !.data = << [name |-> "Col2", type |-> "bar"] >>]
      [] k = 4 -> [ns EXCEPT !.k = k, !.layout = TRUE]
      [] k = 5 -> [ns EXCEPT !.k = k, !.response = TRUE]
      [] k = 6 -> [ns EXCEPT !.k = k, !.url = ns.response]
      [] OTHER -> [ns EXCEPT !.k = k, !.filename = ns.response]

\* the top-level expressions that are calls into the plotly library
RCallExprs == {1, 5}

\* evaluate the next top-level expression; library(plotly) and p$plotly(...)
\* are the external calls
r_eval ==
    /\ script = "r" /\ status = "running" /\ pc = "r_eval"
    /\ LET k == ns.k + 1 IN
       IF k > Len(RExprs)
       THEN /\ inflight = <<>>
            /\ status' = "done"
            /\ UNCHANGED <<pc, calls, ns, inflight>>
       ELSE IF ~RSyntax[k]
       THEN /\ inflight = <<>>
            /\ status' = "halted"
            /\ UNCHANGED <<pc, calls, ns, inflight>>
       ELSE IF k \in RCallExprs
       THEN /\ inflight = <<"r_eval">>
            /\ inflight' = <<>>
            /\ \E ok \in BOOLEAN :
                 /\ IF k = 1 THEN LibCall("library", "plotly", "plotly", 0, ok)
                             ELSE LibCall("plotly", "p", "2013-US-Population", Len(ns.data), ok)
                 /\ Outcome(ok, "r_eval", REffect(k))
       ELSE /\ inflight = <<>>
            /\ calls' = calls
            /\ Outcome(TRUE, "r_eval", REffect(k))
            /\ UNCHANGED inflight
    /\ UNCHANGED <<script, installed>>

\* ======================================================================
\* Entering a library call
\* ======================================================================
\* the statements that are calls into a library, the charting service, the
\* shell or the import machinery
CallLabels ==
    { "load_digits", "kernel_svm_fit", "kernel_svm_score",
      "linear_svm_fit", "linear_svm_score",
      "nystroem_fit", "fourier_fit", "fourier_score", "nystroem_score",
      "iplot_fig", "pca_fit", "pca_transform", "predict", "iplot_fig1",
      "mcd_fit", "emp_full_fit", "pure_fit", "iplot_location", "iplot_covariance",
      "pip_install", "import_publisher", "publish" }

\* the next statement is a call
PendingCall ==
    IF script = "r"
    THEN /\ pc = "r_eval"
         /\ ns.k + 1 \in RCallExprs
         /\ RSyntax[ns.k + 1]
    ELSE pc \in CallLabels

\* the interpreter enters the call of the current statement and waits for it
invoke_async ==
    /\ status = "running"
    /\ PendingCall
    /\ Len(inflight) < 2
    /\ inflight' = Append(inflight, pc)
    /\ UNCHANGED <<script, pc, status, calls, ns, installed>>
invoke ==
    /\ status = "running"
    /\ PendingCall
    /\ inflight = <<>>
    /\ inflight' = <<pc>>
    /\ UNCHANGED <<script, pc, status, calls, ns, installed>>

Init ==
    /\ script \in Scripts
    /\ status = "running"
    /\ calls = <<>>
    /\ inflight = <<>>
    /\ installed \in BOOLEAN
    /\ \E g \in 0..GlobalPeriod - 1, mode \in RModes :
         /\ ns = CASE script = "kernel" -> KernelNs0
                   [] script = "cov" -> CovNs0(g)
                   [] OTHER -> RNs0(mode)
         /\ pc = CASE script = "kernel" -> "load_digits"
                   [] script = "cov" -> "settings"
                   [] OTHER -> IF mode = "source" THEN "r_parse" ELSE "r_eval"

Next ==
    \/ load_digits \/ split \/ create
    \/ kernel_svm_t0 \/ kernel_svm_fit \/ kernel_svm_score \/ kernel_svm_t1
    \/ linear_svm_t0 \/ linear_svm_fit \/ linear_svm_score \/ linear_svm_t1
    \/ sweep_init \/ sweep_next \/ set_params
    \/ nystroem_t0 \/ nystroem_fit \/ nystroem_t1
    \/ fourier_t0 \/ fourier_fit \/ fourier_t1
    \/ fourier_score \/ nystroem_score \/ append_scores
    \/ make_fig \/ iplot_fig
    \/ make_fig1 \/ pca_fit \/ pca_transform \/ predict_next \/ predict
    \/ append_traces \/ iplot_fig1
    \/ kernel_pip_install \/ kernel_import_publisher \/ kernel_publish \/ kernel_end
    \/ settings \/ outer_next \/ inner_next \/ seed \/ generate
    \/ outliers_index \/ outliers_offset \/ add_outliers \/ inliers_mask
    \/ mcd_fit \/ emp_full_fit \/ pure_X \/ pure_fit
    \/ make_location_fig \/ iplot_location \/ make_covariance_fig \/ iplot_covariance
    \/ cov_pip_install \/ cov_import_publisher \/ cov_publish \/ cov_end
    \/ r_parse \/ r_eval
    \/ invoke

Spec == Init /\ [][Next]_vars

\* the interpreter goes on to the next statement as long as there is one, and
\* a call that was entered comes back
FairSpec == Spec /\ WF_vars(Next)

\* ======================================================================
\* Properties
\* ======================================================================
LastCall == calls[Len(calls)]

\* a call (fn, obj, n) that returned before the last call of the history
Earlier(fn, obj, n) ==
    \E k \in 1..Len(calls) - 1 :
        /\ calls[k].fn = fn /\ calls[k].obj = obj /\ calls[k].n = n
        /\ calls[k].ok

EstimatorFns == {"fit", "score", "predict", "transform"}

\* the result array a covariance trace averages
ErrArray(name) ==
    CASE name = "err_loc_mcd" -> ns.err_loc_mcd
      [] name = "err_cov_mcd" -> ns.err_cov_mcd
      [] name = "err_loc_emp_full" -> ns.err_loc_emp_full
      [] name = "err_cov_emp_full" -> ns.err_cov_emp_full
      [] name = "err_loc_emp_pure" -> ns.err_loc_emp_pure
      [] OTHER -> ns.err_cov_emp_pure

\* C1, kernel notebook, estimator calls: the data is built before it is used
C1_KernelData ==
    (script = "kernel" /\ calls # <<>> /\ LastCall.fn \in EstimatorFns) =>
        /\ Earlier("load", "digits", 9)
        /\ LastCall.arg = "data_train" =>
              ns.data_train # <<>> /\ Range(ns.data_train) \subseteq Range(ns.data)
        /\ LastCall.arg = "data_test" =>
              ns.data_test # <<>> /\ Range(ns.data_test) \subseteq Range(ns.data)
        /\ LastCall.arg = "flat_grid" => Earlier("fit", "pca", PcaNComponents)

\* C1, kernel notebook, first figure: one value per x, each from a returned call
C1_KernelFig ==
    (script = "kernel" /\ calls # <<>> /\ LastCall.fn = "iplot" /\ LastCall.obj = "fig") =>
        /\ \A t \in 1..Len(ns.fig.rows[1]) :
             LET tr == ns.fig.rows[1][t] IN
             /\ Len(tr.y) = Len(tr.x)
             /\ \A k \in 1..Len(tr.y) :
                  tr.y[k].clf # "literal" => Earlier("score", tr.y[k].clf, tr.y[k].n)
        /\ \A t \in 1..Len(ns.fig.rows[2]) :
             LET tr == ns.fig.rows[2][t] IN
             /\ Len(tr.y) = Len(tr.x)
             /\ \A k \in 1..Len(tr.y) :
                  /\ tr.y[k][2] < Len(calls)
                  /\ \E c \in tr.y[k][1] + 1..tr.y[k][2] :
                        calls[c].fn = "fit" /\ calls[c].ok

\* C1, kernel notebook, second figure: three columns, each from a returned call
C1_KernelFig1 ==
    (script = "kernel" /\ calls # <<>> /\ LastCall.fn = "iplot" /\ LastCall.obj = "fig1") =>
        \A c \in 1..3 :
            /\ Earlier("predict", ns.fig1.cols[c].contour.clf, ns.fig1.cols[c].contour.n)
            /\ ns.fig1.cols[c].scatter = "X"
            /\ Earlier("transform", "pca", PcaNComponents)

\* C1, covariance notebook: a figure is sent only when every cell it averages
\* holds the result of a returned fit
C1_CovFig ==
    (script = "cov" /\ calls # <<>> /\ LastCall.fn = "iplot") =>
        \A t \in 1..Len(ns.fig.data) :
           \A c \in DOMAIN ErrArray(ns.fig.data[t].y) :
              /\ ErrArray(ns.fig.data[t].y)[c] # Zero
              /\ Earlier("fit", "MinCovDet", c[1] * c[2])
              /\ Earlier("fit", "EmpiricalCovariance", c[1] * c[2])

\* C1, covariance notebook: when a fit is called, X of this iteration (i, j)
\* is built, and pure_X is cut from it
C1_CovFit ==
    (script = "cov" /\ Len(calls') = Len(calls) + 1
        /\ calls'[Len(calls')].fn = "fit") =>
        /\ ns.X # <<>> /\ ns.X.seed = ns.i * ns.j
        /\ calls'[Len(calls')].arg = "pure_X" =>
              ns.pure_X = {r \in 0..n_samples - 1 : ns.X.offset[r] = 0}

\* C1: in every notebook run no estimator call precedes the building of the
\* data it consumes, and no plot call precedes an estimator call whose result
\* the figure displays.
C1_LoadCallPlot ==
    /\ [](C1_KernelData /\ C1_KernelFig /\ C1_KernelFig1 /\ C1_CovFig)
    /\ [][C1_CovFit]_vars

\* C1 witness: the second figure of the kernel notebook has been plotted
C1_Witness ==
    script = "kernel" /\ calls # <<>> /\ LastCall.fn = "iplot"
        /\ LastCall.obj = "fig1" /\ LastCall.ok

Notebook == script \in {"kernel", "cov"}

\* positions of the calls of a function in the history
CallsOf(fn) == {k \in 1..Len(calls) : calls[k].fn = fn}

\* ---------------------------------------------------------------- C2
\* C2 as stated: in both notebooks a standard dataset has been loaded before
\* any estimator call.
C2_Original ==
    (Notebook /\ calls # <<>> /\ LastCall.fn \in EstimatorFns) =>
        \E k \in 1..Len(calls) - 1 : calls[k].fn = "load" /\ calls[k].ok

\* kernel notebook: load_digits is the first call and every estimator call
\* works on rows of the loaded digits
C2_Kernel ==
    (script = "kernel" /\ calls # <<>>) =>
        /\ calls[1].fn = "load"
        /\ LastCall.fn \in EstimatorFns =>
              /\ calls[1].ok /\ ns.digits
              /\ Range(ns.data_train) \subseteq 0..ns.n_samples - 1
              /\ Range(ns.data_test) \subseteq 0..ns.n_samples - 1
              /\ LastCall.arg \in {"data_train", "data_test", "flat_grid"}

\* covariance notebook: nothing is loaded; the data of a fit is X generated
\* by the generator seeded i * j in this iteration, or rows of that X
C2_Cov ==
    (script = "cov" /\ Len(calls') = Len(calls) + 1
        /\ calls'[Len(calls')].fn = "fit") =>
        /\ CallsOf("load") = {}
        /\ ns.rng = ns.i * ns.j /\ ns.X.seed = ns.rng
        /\ calls'[Len(calls')].arg \in {"X", "pure_X"}
        /\ ns.pure_X \subseteq DOMAIN ns.X.offset

\* C2 (amended): the kernel notebook loads the digits dataset before its first
\* estimator call and fits on data derived from it; the covariance notebook
\* loads no dataset but generates X with a generator seeded i * j before each
\* estimator call, and fits on X or rows of X.
C2_DataBeforeEstimator ==
    /\ [](C2_Kernel)
    /\ [][C2_Cov]_vars

\* C2 witness: a fit on pure_X of a later iteration has returned
C2_Witness ==
    script = "cov" /\ calls # <<>> /\ LastCall.fn = "fit"
        /\ LastCall.arg = "pure_X" /\ LastCall.ok /\ LastCall.n > 0

\* ---------------------------------------------------------------- C3
\* C3: publisher.publish is invoked at most once in a notebook run, exactly
\* once in a run that reaches its end; it is the last external call, both
\* plot calls of the notebook have returned before it and no plot or
\* estimator call follows it.
C3_PublishLast ==
    Notebook =>
        /\ Cardinality(CallsOf("publish")) <= 1
        /\ \A k \in CallsOf("publish") :
              /\ k = Len(calls)
              /\ Cardinality({p \in 1..k - 1 : calls[p].fn = "iplot" /\ calls[p].ok}) = 2
              /\ CallsOf("iplot") \subseteq 1..k - 1
        /\ status = "done" =>
              /\ Cardinality(CallsOf("publish")) = 1
              /\ LastCall.fn = "publish" /\ LastCall.ok

\* C3 witness: a covariance run has reached its end
C3_Witness ==
    script = "cov" /\ status = "done" /\ LastCall.fn = "publish"

\* ---------------------------------------------------------------- C4
\* a call that raised: pip is a shell command, its failure is an exit status
Raised(k) == ~calls[k].ok /\ calls[k].fn # "pip"

\* C4: when a library call raises the run stops at that call: the failed call
\* is the last entry of the history (nothing runs after it, it is not
\* retried), the position does not move, and no step is taken in a raised run.
C4_ErrorsPropagate ==
    /\ [](/\ \A k \in 1..Len(calls) : Raised(k) => (k = Len(calls) /\ status = "raised")
          /\ status = "raised" => (calls # <<>> /\ Raised(Len(calls))))
    /\ [][status # "raised" /\ (status' = "raised" => pc' = pc /\ ns' = ns)]_vars

\* C4 witness: a fit of the sweep has raised
C4_Witness ==
    script = "kernel" /\ status = "raised" /\ LastCall.fn = "fit"
        /\ LastCall.obj = "fourier_approx_svm" /\ LastCall.n = 60

\* ---------------------------------------------------------------- C5
\* C5 as stated: after a failed install the run ends; neither the import of
\* publisher nor publisher.publish is executed.
C5_Original ==
    Notebook =>
        \A k \in CallsOf("pip") : ~calls[k].ok => k = Len(calls)

\* C5 (amended): a failed install is not an exception; the cell goes on to
\* import publisher, which raises exactly when publisher is not installed,
\* and publisher.publish is executed exactly after an import that returned.
C5_InstallFailureContinues ==
    (Notebook /\ calls # <<>>) =>
        /\ LastCall.fn = "pip" => (status = "running" /\ pc = "import_publisher")
        /\ LastCall.fn = "import" =>
              /\ calls[Len(calls) - 1].fn = "pip"
              /\ LastCall.ok = installed
              /\ (~calls[Len(calls) - 1].ok /\ LastCall.ok) => pc = "publish"
              /\ ~LastCall.ok => status = "raised"
        /\ LastCall.fn = "publish" =>
              /\ calls[Len(calls) - 1].fn = "import"
              /\ calls[Len(calls) - 1].ok

\* C5 witness: the install failed and publisher.publish was still executed
C5_Witness ==
    Notebook /\ calls # <<>> /\ LastCall.fn = "publish" /\ LastCall.ok
        /\ \E k \in CallsOf("pip") : ~calls[k].ok

\* ---------------------------------------------------------------- C6
\* C6 as stated: a run of the R script in which no call fails gets to the
\* plot call: exactly one plot request, carrying one trace of type bar, and
\* url and filename are read only after that request has returned.
C6_Original ==
    script = "r" =>
        /\ (status # "running" /\ \A k \in 1..Len(calls) : calls[k].ok) =>
              /\ Cardinality(CallsOf("plotly")) = 1
              /\ \A k \in CallsOf("plotly") : calls[k].n = 1
              /\ ns.data[1].type = "bar"
        /\ (ns.url \/ ns.filename) =>
              \E k \in CallsOf("plotly") : calls[k].ok

\* ---------------------------------------------------------------- C7
Pipelines == {"fourier_approx_svm", "nystroem_approx_svm"}

\* C7 as stated: when predict is called on one of the two pipelines for the
\* second figure, its feature map has n_components = 100, the value of the
\* subplot titles, and was last fitted with it.
C7_Original ==
    (script = "kernel" /\ calls # <<>> /\ LastCall.fn = "predict"
        /\ LastCall.obj \in Pipelines) =>
        /\ ns.n_components[LastCall.obj] = TitleNComponents
        /\ ns.fitted[LastCall.obj] = TitleNComponents
        /\ \A c \in 2..3 : ns.fig1.titles[c].n_components = ns.fitted[LastCall.obj]

\* ---------------------------------------------------------------- C8
\* the classifier a subplot title of the second figure names
TitleClf(text) ==
    CASE text = "SVC with rbf kernel" -> "kernel_svm"
      [] text = "SVC (linear kernel) with Fourier rbf feature map" -> "fourier_approx_svm"
      [] OTHER -> "nystroem_approx_svm"

\* C8 as stated: the contour in column k of the second figure is the
\* prediction of the classifier the k-th subplot title names.
C8_Original ==
    (script = "kernel" /\ pc = "iplot_fig1") =>
        \A c \in 1..3 :
            ns.fig1.cols[c].contour.clf = TitleClf(ns.fig1.titles[c].text)

\* ---------------------------------------------------------------- C9
\* C9 as stated: in a figure whose x axis is 'Amount of contamination (%)'
\* the x value of each of the 8 sweep points is 100 * (rows of X that got an
\* outlier offset) / n_samples.  (x is held in quarters.)
C9_Original ==
    (script = "cov" /\ calls # <<>> /\ LastCall.fn = "iplot") =>
        \A t \in 1..Len(ns.fig.data) :
            LET tr == ns.fig.data[t] IN
            (ns.fig.xaxis = "Amount of contamination (%)"
                /\ Len(tr.x) = Len(ns.range_n_outliers)) =>
                \A k \in 1..Len(tr.x), j \in 0..repeat - 1 :
                    tr.x[k] * n_samples
                        = 100 * Scale * ns.err_loc_emp_full[<<k - 1, j>>].outliers

\* ---------------------------------------------------------------- C10
\* the classifier a trace of the first figure is about
TraceClf(name) ==
    CASE name = "rbf svm" -> "kernel_svm"
      [] name = "linear svm" -> "linear_svm"
      [] name = "Nystroem approx. kernel" -> "nystroem_approx_svm"
      [] OTHER -> "fourier_approx_svm"

\* C10 as stated: every value of the 'Training times' subplot is the length
\* of an interval in which exactly one call was made, the fit of the trace's
\* classifier, and no score or predict call.
C10_Original ==
    (script = "kernel" /\ pc = "iplot_fig") =>
        \A r \in 1..Len(ns.fig.titles) :
            ns.fig.titles[r] = "Training times" =>
                \A t \in 1..Len(ns.fig.rows[r]) :
                    LET tr == ns.fig.rows[r][t] IN
                    \A k \in 1..Len(tr.y) :
                        /\ tr.y[k][2] = tr.y[k][1] + 1
                        /\ calls[tr.y[k][2]].fn = "fit"
                        /\ calls[tr.y[k][2]].obj = TraceClf(tr.name)

\* ---------------------------------------------------------------- C11
\* C11: at most one library call is in progress at any time; while a call is
\* in progress the only step is its coming back, a call is entered only when
\* none is in progress, and entering a call runs no statement.
C11_OneCallAtATime ==
    /\ [](Len(inflight) <= 1)
    /\ [][/\ inflight # <<>> =>
                (inflight' = <<>> /\ Len(calls') = Len(calls) + 1)
          /\ inflight' # <<>> =>
                (inflight = <<>> /\ pc' = pc /\ ns' = ns /\ calls' = calls)
          /\ Len(calls') > Len(calls) =>
                (inflight # <<>> /\ Len(calls') = Len(calls) + 1)]_vars

\* C11 witness: a fit of the sweep is in progress after earlier calls returned
C11_Witness ==
    script = "kernel" /\ inflight = <<"fourier_fit">> /\ Len(calls) > 5

\* ---------------------------------------------------------------- C12
\* the calls of a function on an object that returned
Returned(fn, obj) ==
    {k \in 1..Len(calls) : calls[k].fn = fn /\ calls[k].obj = obj /\ calls[k].ok}

\* kernel notebook: when the plotting cell is reached the sweep has made
\* exactly 9 iterations, D = 30, 60, ..., 270
C12_Kernel ==
    (script = "kernel" /\ pc = "make_fig") =>
        /\ ns.sample_sizes = <<30, 60, 90, 120, 150, 180, 210, 240, 270>>
        /\ ns.d = 9 /\ ns.D = 270
        /\ Cardinality(Returned("fit", "nystroem_approx_svm")) = 9
        /\ Cardinality(Returned("fit", "fourier_approx_svm")) = 9
        /\ {calls[k].n : k \in Returned("fit", "fourier_approx_svm")}
              = {30 * k : k \in 1..9}
        /\ Len(ns.nystroem_scores) = 9 /\ Len(ns.fourier_scores) = 9

\* covariance notebook: when the plotting cell is reached the sweep has made
\* exactly 8 x 10 iterations
C12_Cov ==
    (script = "cov" /\ pc = "make_location_fig") =>
        /\ Len(ns.range_n_outliers) = 8
        /\ ns.i = 7 /\ ns.j = 9
        /\ Cardinality(Returned("fit", "MinCovDet")) = 80
        /\ Cardinality(Returned("fit", "EmpiricalCovariance")) = 160
        /\ \A c \in (0..7) \X (0..9) : ns.err_cov_emp_pure[c] # Zero

\* the sweep of the run is over and was complete, or a call has raised
\* (the R script has no sweep)
C12_Done ==
    \/ script = "r"
    \/ status = "raised"
    \/ script = "kernel" /\ pc = "make_fig" /\ C12_Kernel
    \/ script = "cov" /\ pc = "make_location_fig" /\ C12_Cov

\* C12: every sweep terminates: unless a call raises, the run gets to the
\* plotting cell, for every data set size and generator state, and has then
\* made exactly 9 (kernel) or 8 x 10 (covariance) iterations.
C12_SweepsTerminate == <>C12_Done

\* C12 witness: the covariance sweep is over and the plotting cell is next
C12_Witness ==
    script = "cov" /\ pc = "make_location_fig" /\ status = "running"

\* ---------------------------------------------------------------- C13
\* C13: once the split is made, for every n_samples the training and test
\* index sets are disjoint, cover 0..n_samples-1, every training index is
\* below every test index, and data and targets are split at the same index.
C13_SplitPartition ==
    (script = "kernel" /\ pc \notin {"load_digits", "split"}) =>
        LET train == Range(ns.data_train)
            test == Range(ns.data_test)
        IN /\ train \cap test = {}
           /\ train \cup test = 0..ns.n_samples - 1
           /\ Len(ns.data_train) + Len(ns.data_test) = ns.n_samples
           /\ \A a \in train, b \in test : a < b
           /\ ns.targets_train = ns.data_train
           /\ ns.targets_test = ns.data_test

\* C13 witness: an odd number of samples has been split
C13_Witness ==
    script = "kernel" /\ pc = "create" /\ ns.n_samples = 3
        /\ Len(ns.data_train) = 1 /\ Len(ns.data_test) = 2

\* ----------------------------------------------------------------------
\* C14: in every iteration (i, j) of the covariance sweep the entries of
\* outliers_index are pairwise distinct, inliers_mask is False exactly at
\* those indices, pure_X holds no row an offset was added to, and the rows
\* of pure_X plus the offset rows are the n_samples rows of X
\* ----------------------------------------------------------------------
OffsetRows == {r \in 0..n_samples - 1 : ns.X.offset[r] # 0}

C14_MaskPartition ==
    (script = "cov" /\ pc = "pure_fit") =>
        /\ Len(ns.outliers_index) = Trunc(ns.n_outliers)
        /\ Cardinality(Range(ns.outliers_index)) = Len(ns.outliers_index)
        /\ \A r \in 0..n_samples - 1 :
              ns.inliers_mask[r] = FALSE <=> r \in Range(ns.outliers_index)
        /\ OffsetRows = Range(ns.outliers_index)
        /\ ns.pure_X \cap OffsetRows = {}
        /\ Cardinality(ns.pure_X) + Cardinality(OffsetRows) = n_samples

C14_Witness ==
    /\ script = "cov" /\ pc = "pure_fit"
    /\ ns.i = 3 /\ ns.j = 4
    /\ Len(ns.outliers_index) = 7
    /\ Cardinality(ns.pure_X) = 73

\* ----------------------------------------------------------------------
\* C15: n_samples > 5 * n_features; at every sweep point the number of
\* injected outliers is at most (n_samples - n_features - 1) / 2; the
\* injected counts start at 0 and never decrease along the sweep
\* ----------------------------------------------------------------------
Injected(k) == Trunc(ns.range_n_outliers[k])

C15_OutlierBudget ==
    /\ n_samples > 5 * n_features
    /\ (script = "cov" /\ pc # "settings") =>
          /\ Injected(1) = 0
          /\ \A k \in 1..Len(ns.range_n_outliers) - 1 :
                /\ Injected(k) <= Injected(k + 1)
                /\ ns.range_n_outliers[k] <= ns.range_n_outliers[k + 1]
          /\ \A k \in 1..Len(ns.range_n_outliers) :
                /\ 2 * Injected(k) <= n_samples - n_features - 1
                /\ 2 * ns.range_n_outliers[k] <= Scale * (n_samples - n_features - 1)
    /\ (script = "cov"
          /\ pc \in {"inliers_mask", "mcd_fit", "emp_full_fit", "pure_X", "pure_fit"}) =>
          /\ Cardinality(OffsetRows) = Injected(ns.i + 1)
          /\ 2 * Cardinality(OffsetRows) <= n_samples - n_features - 1

C15_Witness ==
    /\ script = "cov" /\ pc = "mcd_fit"
    /\ ns.i = 7
    /\ Cardinality(OffsetRows) = 32

\* ----------------------------------------------------------------------
\* C16 (as stated): the data of iteration (i, j), outlier rows and offsets
\* included, is fixed by the seed i * j: whatever state the interpreter's
\* global generator was in before the run, the same offsets are drawn
\* ----------------------------------------------------------------------
\* the draws from np.random made before iteration (i, j) of a run
DrawsBefore(i, j) ==
    Cardinality({c \in (0..Len(RangeNOutliers) - 1) \X (0..repeat - 1) :
                    /\ Trunc(RangeNOutliers[c[1] + 1]) > 0
                    /\ (c[1] < i \/ (c[1] = i /\ c[2] < j))})

\* the state of np.random after d draws of a run that started in state g
RECURSIVE StateAfter(_, _)
StateAfter(g, d) == IF d = 0 THEN g ELSE NextState(StateAfter(g, d - 1))

\* outliers_offset of iteration (i, j) in the run that started in state g
OffsetOfRun(g, i, j) ==
    IF Trunc(RangeNOutliers[i + 1]) > 0
    THEN RandInt(StateAfter(g, DrawsBefore(i, j)))
    ELSE 0

C16_Original ==
    (script = "cov" /\ pc = "add_outliers") =>
        \A g \in 0..GlobalPeriod - 1 :
            ns.outliers_offset = OffsetOfRun(g, ns.i, ns.j)

====
